---- MODULE Spec2Model ----
(***************************************************************************)
(* A model of metapensiero.signal: the Signal dispatch engine (atom.py)    *)
(* and the Executor / MultipleResults utilities (utils.py).                *)
(*                                                                         *)
(* Encoding of Python values: a value is a tuple of integers; a scalar v   *)
(* is the 1-tuple <<v>>, None is <<>>, the string "x" is its code point.   *)
(* A keyword-argument dict is a function whose domain is a set of names.   *)
(***************************************************************************)
EXTENDS Integers, Sequences, FiniteSets, TLC

VARIABLES
    subscribers,           \* Signal.subscribers: the class-level ordered dict (its keys)
    instance_subscribers,  \* Signal.instance_subscribers: instance -> ordered dict keys
    cfg,                   \* Signal construction: hooks, external signaller, sequential flag
    op,                    \* the last connect / disconnect call and how it ended
    nt,                    \* the last notify call: invocations, publishes, returned future
    mr,                    \* a MultipleResults object and the await running on it
    ad,                    \* a call-adaptation: handler signature, call and both outcomes
    proxies,               \* Signal._iproxies and the objects Signal.__get__ hands out
    executor,              \* an Executor: its endpoints and the outcome of run
    collected              \* the handlers whose owner object was garbage-collected

vars == <<subscribers, instance_subscribers, cfg, op, nt, mr, ad,
          proxies, executor, collected>>

(***************************************************************************)
(* Bounds                                                                  *)
(***************************************************************************)
MaxArgs == 2        \* positional arguments of an adapted call
MaxSubs == 2        \* entries of one subscriber set
MaxEntries == 3     \* entries of a MultipleResults iterable
MaxAwaits == 2      \* awaits of one MultipleResults object
MaxProxies == 3     \* InstanceProxy objects constructed by one Signal
MaxEndpoints == 2   \* endpoints of an Executor

(***************************************************************************)
(* Small helpers                                                           *)
(***************************************************************************)
EmptyMap == [x \in {} |-> 0]

Restrict(f, S) == [x \in S |-> f[x]]

Range(s) == {s[i] : i \in 1..Len(s)}

IsIn(x, s) == \E i \in 1..Len(s) : s[i] = x

IndexOf(x, s) == CHOOSE i \in 1..Len(s) : s[i] = x

NoDup(s) == \A i, j \in 1..Len(s) : s[i] = s[j] => i = j

Before(x, y, s) ==
    \E i, j \in 1..Len(s) : i < j /\ s[i] = x /\ s[j] = y

(***************************************************************************)
(* Call adaptation: inspect.signature / bind_partial / apply_defaults and  *)
(* the call of the handler with bind.args and bind.kwargs.                  *)
(*                                                                         *)
(* A signature is [params, ndef, varkw]: the positional-or-keyword         *)
(* parameter names in order, how many trailing ones have a default, and    *)
(* whether a **kwargs parameter is declared.                               *)
(***************************************************************************)
Names == {"a", "b", "c"}

\* the default every defaulted parameter declares (b=0 in the handlers used)
DefaultOf(name) == 0

HasDefault(sig, i) == i > Len(sig.params) - sig.ndef

ParamSet(sig) == Range(sig.params)

\* a failed binding or call: TypeError
TypeError == [err |-> TRUE, arguments |-> EmptyMap, kw |-> EmptyMap]

\* Signature.bind_partial(args, kwargs): positional arguments fill the
\* parameters in order, then keywords fill the rest; leftover keywords go
\* to the **kwargs parameter or raise.
bind_partial(sig, args, kwargs) ==
    LET npos == Len(args)
        posNames == {sig.params[i] : i \in 1..(IF npos <= Len(sig.params)
                                                THEN npos ELSE 0)}
        byName == (DOMAIN kwargs) \cap ParamSet(sig)
        left == (DOMAIN kwargs) \ ParamSet(sig)
    IN  IF npos > Len(sig.params) THEN TypeError          \* too many positional
        ELSE IF posNames \cap DOMAIN kwargs # {} THEN TypeError \* multiple values
        ELSE IF left # {} /\ ~sig.varkw THEN TypeError    \* unexpected keyword
        ELSE [err |-> FALSE,
              arguments |-> [n \in posNames \cup byName |->
                                IF n \in posNames
                                THEN args[IndexOf(n, sig.params)]
                                ELSE kwargs[n]],
              kw |-> Restrict(kwargs, left)]

\* BoundArguments.apply_defaults(): every unbound parameter that has a
\* default is bound to it; unbound parameters without one stay unbound.
apply_defaults(sig, bind) ==
    IF bind.err THEN bind
    ELSE LET withDef == {sig.params[i] : i \in {j \in 1..Len(sig.params) :
                                                    HasDefault(sig, j)}}
             dom == DOMAIN bind.arguments \cup withDef
         IN  [bind EXCEPT !.arguments =
                 [n \in dom |-> IF n \in DOMAIN bind.arguments
                                THEN bind.arguments[n] ELSE DefaultOf(n)]]

\* BoundArguments.args: the values of the longest bound prefix of the
\* parameters.
BindArgs(sig, bind) ==
    LET k == CHOOSE m \in 0..Len(sig.params) :
                 /\ \A i \in 1..m : sig.params[i] \in DOMAIN bind.arguments
                 /\ (m < Len(sig.params) =>
                        sig.params[m + 1] \notin DOMAIN bind.arguments)
    IN  [i \in 1..k |-> bind.arguments[sig.params[i]]]

\* BoundArguments.kwargs: the bound parameters after that prefix, by name,
\* plus the contents of the **kwargs capture.
BindKwargs(sig, bind) ==
    LET k == Len(BindArgs(sig, bind))
        late == {sig.params[i] : i \in (k + 1)..Len(sig.params)}
                    \cap DOMAIN bind.arguments
    IN  [n \in late \cup DOMAIN bind.kw |->
            IF n \in late THEN bind.arguments[n] ELSE bind.kw[n]]

\* The Python call of func with args and kwargs: what the function body sees, as
\* [err, arguments (every parameter), kw (the **kwargs capture)].
PyCall(sig, args, kwargs) ==
    LET npos == Len(args)
        posNames == {sig.params[i] : i \in 1..(IF npos <= Len(sig.params)
                                                THEN npos ELSE 0)}
        byName == (DOMAIN kwargs) \cap ParamSet(sig)
        left == (DOMAIN kwargs) \ ParamSet(sig)
        missing == {i \in 1..Len(sig.params) :
                        /\ sig.params[i] \notin posNames \cup byName
                        /\ ~HasDefault(sig, i)}
    IN  IF npos > Len(sig.params) THEN TypeError
        ELSE IF posNames \cap byName # {} THEN TypeError
        ELSE IF left # {} /\ ~sig.varkw THEN TypeError
        ELSE IF missing # {} THEN TypeError
        ELSE [err |-> FALSE,
              arguments |-> [n \in ParamSet(sig) |->
                                IF n \in posNames
                                THEN args[IndexOf(n, sig.params)]
                                ELSE IF n \in byName THEN kwargs[n]
                                ELSE DefaultOf(n)],
              kw |-> Restrict(kwargs, left)]

\* a faulty variant of SignalBind: the keyword filter is dropped
SignalBind_nofilter(sig, args, kwargs) ==
    apply_defaults(sig, bind_partial(sig, args, kwargs))

\* Signal._notify_sync, the body of the try block up to the call: has_varkw
\* selects the unfiltered or the filtered binding; defaults are applied in
\* both branches.
SignalBind(sig, args, kwargs) ==
    apply_defaults(sig,
        IF sig.varkw
        THEN bind_partial(sig, args, kwargs)
        ELSE bind_partial(sig, args,
                          Restrict(kwargs, DOMAIN kwargs \cap ParamSet(sig))))

\* Executor._adapt_call_params: the same selection, but defaults are
\* applied in the filtered branch only.
_adapt_call_params(sig, args, kwargs) ==
    IF sig.varkw
    THEN bind_partial(sig, args, kwargs)
    ELSE apply_defaults(sig,
            bind_partial(sig, args,
                         Restrict(kwargs, DOMAIN kwargs \cap ParamSet(sig))))

\* the call of method with bind.args and bind.kwargs
CallBound(sig, bind) ==
    IF bind.err THEN TypeError
    ELSE PyCall(sig, BindArgs(sig, bind), BindKwargs(sig, bind))

\* what a subscriber receives from Signal dispatch
SignalCall(sig, args, kwargs) == CallBound(sig, SignalBind(sig, args, kwargs))

\* what an endpoint receives from Executor.exec_all_endpoints (adapt_params)
ExecutorCall(sig, args, kwargs) ==
    CallBound(sig, _adapt_call_params(sig, args, kwargs))

(***************************************************************************)
(* Call adaptation as a state machine: one handler signature and one call  *)
(* are drawn, then adapted once by Signal dispatch and once by Executor.   *)
(***************************************************************************)
\* the value each keyword name carries in a call, and each position
KwValue(n) == CASE n = "a" -> 7 [] n = "b" -> 9 [] OTHER -> 8

ArgValue(i) == 4 + i

Signatures ==
    {[params |-> p, ndef |-> d, varkw |-> k] :
        p \in {<<>>, <<"a">>, <<"a", "b">>}, d \in 0..2, k \in BOOLEAN}

NoAdapt == [sig |-> [params |-> <<>>, ndef |-> 0, varkw |-> FALSE],
            args |-> <<>>, kwargs |-> EmptyMap,
            by_signal |-> <<>>, by_executor |-> <<>>]

AdaptInit ==
    \E sg \in Signatures, n \in 0..MaxArgs, ks \in SUBSET Names :
        /\ sg.ndef <= Len(sg.params)
        /\ ad = [sig |-> sg,
                 args |-> [i \in 1..n |-> ArgValue(i)],
                 kwargs |-> [k \in ks |-> KwValue(k)],
                 by_signal |-> <<>>, by_executor |-> <<>>]

\* Signal._notify_sync adapts the call and invokes the handler
AdaptBySignal ==
    /\ ad.by_signal = <<>>
    /\ ad' = [ad EXCEPT !.by_signal = <<SignalCall(ad.sig, ad.args, ad.kwargs)>>]
    /\ UNCHANGED <<subscribers, instance_subscribers, cfg, op, nt, mr, proxies, executor, collected>>

\* Executor.exec_all_endpoints adapts the call and invokes the endpoint
AdaptByExecutor ==
    /\ ad.by_executor = <<>>
    /\ ad' = [ad EXCEPT !.by_executor = <<ExecutorCall(ad.sig, ad.args, ad.kwargs)>>]
    /\ UNCHANGED <<subscribers, instance_subscribers, cfg, op, nt, mr, proxies, executor, collected>>

(***************************************************************************)
(* MultipleResults (utils.py).  An entry of the iterable is a slot         *)
(* [aw, v]: aw tells an awaitable from a plain value; the awaitable at     *)
(* index i is identified by <<i>> and resolves to Resolved(i).  The        *)
(* deferred computations live outside the object: dst is their status,     *)
(* nstart how many times each was started, order the order they settled.   *)
(***************************************************************************)
Value(i) == [aw |-> FALSE, v |-> <<i>>]

Awaitable(i) == [aw |-> TRUE, v |-> <<i>>]

Resolved(i) == <<100 + i>>

\* MultipleResults.__init__
MultipleResults__init__(iterable, concurrent) ==
    LET ixs == {i \in 1..Len(iterable) : iterable[i].aw}
        RECURSIVE Asc(_, _)
        Asc(i, acc) == IF i > Len(iterable) THEN acc
                       ELSE Asc(i + 1, IF i \in ixs THEN Append(acc, i) ELSE acc)
        coro_ixs == Asc(1, <<>>)
    IN  [input |-> iterable,
         concurrent |-> concurrent,
         has_results |-> TRUE,
         _results |-> iterable,
         _coro_ixs |-> coro_ixs,
         has_async |-> coro_ixs # <<>>,
         results |-> IF coro_ixs # <<>> THEN <<>> ELSE <<iterable>>,
         done |-> coro_ixs = <<>>,
         dst |-> [i \in 1..Len(iterable) |-> "new"],
         nstart |-> [i \in 1..Len(iterable) |-> 0],
         order |-> <<>>,
         task |-> "idle",
         pos |-> 0,
         rets |-> <<>>]

NoMR == MultipleResults__init__(<<>>, FALSE)

MRInit ==
    \E n \in 0..MaxEntries, aws \in SUBSET (1..MaxEntries), c \in BOOLEAN :
        /\ aws \subseteq 1..n
        /\ mr = MultipleResults__init__(
                    [i \in 1..n |-> IF i \in aws THEN Awaitable(i) ELSE Value(i)],
                    c)

\* an awaitable is started (a coroutine is driven, a future is waited on)
Start(m, S) ==
    [m EXCEPT !.dst = [i \in DOMAIN m.dst |->
                          IF i \in S /\ m.dst[i] = "new" THEN "started"
                          ELSE m.dst[i]],
              !.nstart = [i \in DOMAIN m.nstart |->
                          IF i \in S THEN m.nstart[i] + 1 ELSE m.nstart[i]]]

\* a faulty variant of Freeze: the object is not marked done
Freeze_notdone(m) ==
    [m EXCEPT !.results = <<m._results>>,
              !._results = <<>>,
              !.has_results = FALSE,
              !.done = FALSE,
              !.task = "idle",
              !.rets = Append(m.rets, [raised |-> "none", value |-> <<m._results>>])]

\* _completion_task, lines 160-163: freeze the tuple, drop the working
\* list, mark done, return the tuple
Freeze(m) ==
    [m EXCEPT !.results = <<m._results>>,
              !._results = <<>>,
              !.has_results = FALSE,
              !.done = TRUE,
              !.task = "idle",
              !.rets = Append(m.rets, [raised |-> "none", value |-> <<m._results>>])]

\* a faulty variant of Raise: the tuple is frozen and the object marked done
\* although the await raises
Raise_resolved(m, what) ==
    [Freeze(m) EXCEPT !.rets = Append(m.rets, [raised |-> what, value |-> <<>>])]

Raise(m, what) ==
    [m EXCEPT !.task = "idle",
              !.rets = Append(m.rets, [raised |-> what, value |-> <<>>])]

\* a faulty variant of GatherValues: the values in the order the entries completed
GatherValues_completion(m) ==
    [k \in 1..Len(m._coro_ixs) |-> Resolved(m.order[k])]

\* asyncio.gather: the values of its arguments, in argument order
GatherValues(m) ==
    [k \in 1..Len(m._coro_ixs) |-> Resolved(m._coro_ixs[k])]

\* a faulty variant of StoreAt: the values are stored from the first slot on
StoreAt_front(res, ixs, vals) ==
    [i \in 1..Len(res) |->
        IF i <= Len(vals) THEN [aw |-> FALSE, v |-> vals[i]] ELSE res[i]]

\* for ix, res in zip(self._coro_ixs, results): self._results[ix] = res
StoreAt(res, ixs, vals) ==
    [i \in 1..Len(res) |->
        IF IsIn(i, ixs) THEN [aw |-> FALSE, v |-> vals[IndexOf(i, ixs)]]
        ELSE res[i]]

\* One await runs at a time.
\* MultipleResults.__await__ and the synchronous start of _completion_task:
\* reading self._results raises AttributeError once it was deleted; a done
\* object freezes at once; otherwise the awaitables are gathered
\* (concurrent) or the first one is awaited (sequential).  After an await
\* that a failed entry ended the entries are spent (an awaited coroutine,
\* a failed future, or in sequential mode a slot that now holds a value):
\* awaiting them again raises and changes nothing.
MRAwait ==
    /\ mr.task = "idle"
    /\ Len(mr.rets) < MaxAwaits
    /\ mr' = IF ~mr.has_results THEN Raise(mr, "AttributeError")
             ELSE IF mr.done THEN Freeze(mr)
             ELSE IF \E k \in 1..Len(mr.rets) : mr.rets[k].raised = "failure"
                  THEN Raise(mr, "spent")
             ELSE IF mr.concurrent
                  THEN [Start(mr, Range(mr._coro_ixs)) EXCEPT !.task = "gather"]
                  ELSE [Start(mr, {mr._coro_ixs[1]}) EXCEPT !.task = "seq", !.pos = 1]
    /\ UNCHANGED <<subscribers, instance_subscribers, cfg, op, nt, ad, proxies, executor, collected>>

\* a started deferred entry settles, with its value or with a failure
MRSettle ==
    \E i \in DOMAIN mr.dst, ok \in BOOLEAN :
        /\ mr.dst[i] = "started"
        /\ mr' = [mr EXCEPT !.dst[i] = IF ok THEN "ok" ELSE "fail",
                            !.order = Append(mr.order, i)]
        /\ UNCHANGED <<subscribers, instance_subscribers, cfg, op, nt, ad, proxies, executor, collected>>

\* _completion_task resumes from asyncio.gather: with the first failure, or
\* with every value once all entries are done
MRGatherResume ==
    /\ mr.task = "gather"
    /\ \/ /\ \E i \in Range(mr._coro_ixs) : mr.dst[i] = "fail"
          /\ mr' = Raise(mr, "failure")
       \/ /\ \A i \in Range(mr._coro_ixs) : mr.dst[i] = "ok"
          /\ mr' = Freeze([mr EXCEPT !._results =
                              StoreAt(mr._results, mr._coro_ixs, GatherValues(mr))])
    /\ UNCHANGED <<subscribers, instance_subscribers, cfg, op, nt, ad, proxies, executor, collected>>

\* _completion_task resumes from "await coro" in the sequential loop
MRSeqResume ==
    /\ mr.task = "seq"
    /\ LET ix == mr._coro_ixs[mr.pos] IN
       \/ /\ mr.dst[ix] = "fail"
          /\ mr' = Raise(mr, "failure")
       \/ /\ mr.dst[ix] = "ok"
          /\ LET stored == [mr EXCEPT !._results[ix] =
                               [aw |-> FALSE, v |-> Resolved(ix)]]
             IN  mr' = IF mr.pos < Len(mr._coro_ixs)
                       THEN [Start(stored, {mr._coro_ixs[mr.pos + 1]})
                                EXCEPT !.pos = mr.pos + 1]
                       ELSE Freeze(stored)
    /\ UNCHANGED <<subscribers, instance_subscribers, cfg, op, nt, ad, proxies, executor, collected>>

(***************************************************************************)
(* The Signal (atom.py).                                                   *)
(*                                                                         *)
(* Handlers: 1 is "def h1(a): return 1", 2 is "def h2(a, b=0): return      *)
(* ('x', a, b)", declared in the class body as well, 3 is "async def       *)
(* h3(a=0, **kw)", whose coroutine resolves to (3, a, len(kw)) or fails.   *)
(***************************************************************************)
Handlers == 1..3

NoInstance == "None"

Instances == {"c"}

HandlerSig(h) ==
    CASE h = 1 -> [params |-> <<"a">>, ndef |-> 0, varkw |-> FALSE]
      [] h = 2 -> [params |-> <<"a", "b">>, ndef |-> 1, varkw |-> FALSE]
      [] OTHER -> [params |-> <<"a">>, ndef |-> 1, varkw |-> TRUE]

\* isawaitable(res) for the value handler h returns
IsCoro(h) == h = 3

\* the value handler h returns (or its coroutine resolves to) when it
\* receives recv
Body(h, recv) ==
    CASE h = 1 -> <<1>>
      [] h = 2 -> <<120, recv.arguments["a"], recv.arguments["b"]>>
      [] OTHER -> <<3, recv.arguments["a"], Cardinality(DOMAIN recv.kw)>>

\* the calls notify is made with: notify(5, b=9), notify(), notify(5, 6)
Calls ==
    << [args |-> <<5>>, kwargs |-> [n \in {"b"} |-> 9]],
       [args |-> <<>>, kwargs |-> EmptyMap],
       [args |-> <<5, 6>>, kwargs |-> EmptyMap] >>

\* the external signaller is the entry 0 of a notify's deferred list
ExtId == 0

ExtValue == <<99>>

\* MethodAwareWeakKeyOrderedDict: d[k] = True keeps the position of a key
\* that is present and appends a new one
DictSet(d, k) == IF IsIn(k, d) THEN d ELSE Append(d, k)

\* MethodAwareWeakKeyOrderedDict: del d[k] (k present)
DictDel(d, k) ==
    LET RECURSIVE Drop(_)
        Drop(t) == IF t = <<>> THEN <<>>
                   ELSE IF Head(t) = k THEN Drop(Tail(t))
                   ELSE <<Head(t)>> \o Drop(Tail(t))
    IN  Drop(d)

\* type(instance)._get_class_handlers(name, instance): the handlers the
\* class body declares for the signal, as bound methods of the instance
_get_class_handlers(inst) == <<2>>

\* a faulty variant of _connect: the handler is appended whether present or not
_connect_append(subs, cback) == Append(subs, cback)

\* Signal._connect
_connect(subs, cback) == DictSet(subs, cback)

\* a faulty variant of _disconnect: the membership test is dropped; the result is
\* [subs, raised]
_disconnect_unguarded(subs, cback) ==
    [subs |-> DictDel(subs, cback), raised |-> ~IsIn(cback, subs)]

\* Signal._disconnect, as [subs, raised]: raised tells a KeyError
_disconnect(subs, cback) ==
    IF IsIn(cback, subs)
    THEN [subs |-> DictDel(subs, cback), raised |-> FALSE]
    ELSE [subs |-> subs, raised |-> FALSE]

\* the subscriber set a call targets: subscribers=None selects the
\* class-level set, an instance proxy passes its own
Target(inst) ==
    IF inst = NoInstance THEN subscribers ELSE instance_subscribers[inst]

\* op: the last registry call: its kind, handler and instance, whether the
\* handler was in the targeted set before the call, whether the call raised
NoOp == [kind |-> "none", cback |-> 0, inst |-> NoInstance,
         present |-> FALSE, raised |-> FALSE]

NoNotify ==
    [st |-> "none", inst |-> NoInstance, call |-> 0, no_ext |-> FALSE,
     ext |-> FALSE, hooked |-> FALSE, subs |-> <<>>, calls |-> <<>>,
     published |-> 0, result |-> <<>>, coros |-> <<>>, cst |-> <<>>,
     order |-> <<>>, pos |-> 0, fut |-> "none", outer |-> "none",
     awaited |-> "none", prior |-> "none", during |-> "none"]

\* a faulty variant of SetTarget: the instances share one instance-level set
SetTarget_shared(inst, new) ==
    IF inst = NoInstance
    THEN /\ subscribers' = new
         /\ UNCHANGED instance_subscribers
    ELSE /\ instance_subscribers' = [i \in DOMAIN instance_subscribers |-> new]
         /\ UNCHANGED subscribers

\* The model follows one call at a time: a registry call or a notify is
\* taken from a state in which no notify is being followed (nt.st is
\* "none"), and a notify is followed to the settling of its future.  A
\* notify reads the subscriber sets once, when it is called, and writes
\* none, so the states a notify can be in after other calls are the
\* states it can be in here.
SetTarget(inst, new) ==
    IF inst = NoInstance
    THEN /\ subscribers' = new
         /\ UNCHANGED instance_subscribers
    ELSE /\ instance_subscribers' = [instance_subscribers EXCEPT ![inst] = new]
         /\ UNCHANGED subscribers

\* Signal.connect (and InstanceProxy.connect, which passes its own set and
\* instance): without a connect hook the handler is registered; a hook is
\* handed _connect and decides itself whether to call it.
Connect ==
    \E inst \in Instances \cup {NoInstance}, cback \in Handlers,
       calls_default \in BOOLEAN :
        /\ nt.st = "none"
        /\ cback \notin collected
        /\ (~cfg.fconnect) => calls_default
        /\ IsIn(cback, Target(inst)) \/ Len(Target(inst)) < MaxSubs
        /\ SetTarget(inst, IF calls_default THEN _connect(Target(inst), cback)
                           ELSE Target(inst))
        /\ op' = [kind |-> "connect", cback |-> cback, inst |-> inst,
                  present |-> IsIn(cback, Target(inst)), raised |-> FALSE]
        /\ UNCHANGED nt
        /\ UNCHANGED <<cfg, mr, ad, proxies, executor, collected>>

\* the handlers that are bound methods of an object of their own, which the
\* program may drop; handler 2 belongs to the instance
Owned == {1, 3}

\* a faulty variant of WeakDrop: the entry keeps its owner alive and stays
WeakDrop_strong(d, k) == d

\* MethodAwareWeakKeyOrderedDict: the entry of a bound method disappears
\* when the owner of the method is collected
WeakDrop(d, k) == DictDel(d, k)

\* The last strong reference to the owner of a connected bound method is
\* dropped and the owner is collected: every subscriber set loses the
\* entry, and the method can be connected no more.
OwnerCollected ==
    \E h \in Owned \ collected :
        /\ nt.st = "none"
        /\ \/ IsIn(h, subscribers)
           \/ \E i \in Instances : IsIn(h, instance_subscribers[i])
        /\ subscribers' = WeakDrop(subscribers, h)
        /\ instance_subscribers' =
              [i \in Instances |-> WeakDrop(instance_subscribers[i], h)]
        /\ collected' = collected \cup {h}
        /\ op' = [kind |-> "collect", cback |-> h, inst |-> NoInstance,
                  present |-> TRUE, raised |-> FALSE]
        /\ UNCHANGED <<cfg, nt, mr, ad, proxies, executor>>

\* Signal.disconnect (and InstanceProxy.disconnect)
Disconnect ==
    \E inst \in Instances \cup {NoInstance}, cback \in Handlers,
       calls_default \in BOOLEAN :
        /\ nt.st = "none"
        /\ (~cfg.fdisconnect) => calls_default
        /\ LET r == IF calls_default THEN _disconnect(Target(inst), cback)
                    ELSE [subs |-> Target(inst), raised |-> FALSE]
           IN  /\ SetTarget(inst, r.subs)
               /\ op' = [kind |-> "disconnect", cback |-> cback, inst |-> inst,
                         present |-> IsIn(cback, Target(inst)),
                         raised |-> r.raised]
        /\ UNCHANGED nt
        /\ UNCHANGED <<cfg, mr, ad, proxies, executor, collected>>

\* Signal.clear and InstanceProxy.clear
Clear ==
    \E inst \in Instances \cup {NoInstance} :
        /\ nt.st = "none"
        /\ SetTarget(inst, <<>>)
        /\ op' = [kind |-> "clear", cback |-> 0, inst |-> inst,
                  present |-> FALSE, raised |-> FALSE]
        /\ UNCHANGED nt
        /\ UNCHANGED <<cfg, mr, ad, proxies, executor, collected>>

(***************************************************************************)
(* Signal.notify                                                           *)
(***************************************************************************)
RECURSIVE MergeInto(_, _)
\* for el in seq: if el not in acc: acc[el] = True
MergeInto(acc, seq) ==
    IF seq = <<>> THEN acc
    ELSE MergeInto(IF IsIn(Head(seq), acc) THEN acc ELSE DictSet(acc, Head(seq)),
                   Tail(seq))

\* a faulty variant of EffectiveSubscribers: the instance-level handlers are merged
\* before the class-body handlers
EffectiveSubscribers_swapped(inst) ==
    IF inst = NoInstance THEN subscribers
    ELSE MergeInto(MergeInto(subscribers, instance_subscribers[inst]),
                   _get_class_handlers(inst))

\* Signal.notify, lines 363-384: a copy of the class-level set, then the
\* class-body handlers, then the instance-level set.  The signal is named
\* and the class of every instance uses SignalAndHandlerInitMeta, so the
\* test of line 366 is "instance is not None".
EffectiveSubscribers(inst) ==
    IF inst = NoInstance THEN subscribers
    ELSE MergeInto(MergeInto(subscribers, _get_class_handlers(inst)),
                   instance_subscribers[inst])

\* Signal._add_to_trans with no ambient transaction: the items themselves
_add_to_trans(items) == items

\* a faulty variant of Collect: a value is put in front of the results
Collect_prepend(acc, method, recv) ==
    [acc EXCEPT
        !.calls = Append(@, method),
        !.sync = IF IsCoro(method) THEN @ ELSE <<Body(method, recv)>> \o @,
        !.coros = IF IsCoro(method)
                  THEN Append(@, [id |-> method, val |-> Body(method, recv)])
                  ELSE @]

\* Signal._notify_sync, lines 221-225: the handler is invoked; an awaitable
\* it returns goes to coros, any other value to results
Collect(acc, method, recv) ==
    [acc EXCEPT
        !.calls = Append(@, method),
        !.sync = IF IsCoro(method) THEN @ ELSE Append(@, Body(method, recv)),
        !.coros = IF IsCoro(method)
                  THEN Append(@, [id |-> method, val |-> Body(method, recv)])
                  ELSE @]

RECURSIVE DispatchLoop_continue(_, _, _)
\* a faulty variant of DispatchLoop: an error of one subscriber is swallowed and the
\* loop goes on
DispatchLoop_continue(subs, c, acc) ==
    IF subs = <<>> THEN acc
    ELSE LET method == Head(subs)
             recv == SignalCall(HandlerSig(method), Calls[c].args, Calls[c].kwargs)
         IN  IF recv.err THEN DispatchLoop_continue(Tail(subs), c,
                                                   [acc EXCEPT !.raised = TRUE])
             ELSE DispatchLoop_continue(Tail(subs), c,
                    Collect(acc, method, recv))

RECURSIVE DispatchLoop(_, _, _)
\* Signal._notify_sync, lines 209-228: every subscriber is adapted and
\* invoked in turn; an awaitable goes to coros, a value to results; an
\* error is re-raised and ends the loop
DispatchLoop(subs, c, acc) ==
    IF subs = <<>> THEN acc
    ELSE LET method == Head(subs)
             recv == SignalCall(HandlerSig(method), Calls[c].args, Calls[c].kwargs)
         IN  IF recv.err THEN [acc EXCEPT !.raised = TRUE]
             ELSE DispatchLoop(Tail(subs), c,
                    Collect(acc, method, recv))

\* a faulty variant of StatusAtReturn: every deferred computation is started
\* in sequential mode too
StatusAtReturn_all(i) == "started"

\* Signal._create_async_results: the status of the i-th deferred
\* computation when the future is returned.  asyncio.gather starts them
\* all; the task of _sequential_handlers_exec awaits the first and leaves
\* the others as the handlers returned them.
StatusAtReturn(i) == IF cfg.seq /\ i > 1 THEN "new" ELSE "started"

\* a faulty variant of DoesPublish: notify_external is not looked at
DoesPublish_always(n) == cfg.ext # "none"

\* Signal._notify_sync, line 231: the test that guards ext_publish
DoesPublish(n) == n.ext /\ cfg.ext # "none"

\* Signal._notify_sync on the notify recorded in n (its subscribers, call
\* and notify_external flag): the dispatch loop, the external publish, then
\* _create_async_results
_notify_sync(n) ==
    LET d == DispatchLoop(n.subs, n.call,
                 [calls |-> <<>>, sync |-> <<>>, coros |-> <<>>, raised |-> FALSE])
        publish == DoesPublish(n)
        coros == _add_to_trans(
                    IF publish /\ cfg.ext = "async"
                    THEN Append(d.coros, [id |-> ExtId, val |-> ExtValue])
                    ELSE d.coros)
    IN  IF d.raised
        THEN [n EXCEPT !.st = "raised", !.calls = d.calls]
        ELSE [n EXCEPT
                !.st = "returned",
                !.calls = d.calls,
                !.published = IF publish THEN 1 ELSE 0,
                !.result = d.sync,
                !.coros = coros,
                !.cst = [i \in 1..Len(coros) |-> StatusAtReturn(i)],
                !.pos = IF coros # <<>> /\ cfg.seq THEN 1 ELSE 0,
                !.fut = IF coros = <<>> THEN "resolved" ELSE "pending"]

\* a faulty variant of _notify: the dispatch runs inline and the future
\* _notify_async returns is set at once
_notify_inline(n, run_async, loop) ==
    IF run_async /\ loop
    THEN LET r == _notify_sync(n)
         IN  IF r.st = "raised" THEN r ELSE [r EXCEPT !.outer = "set"]
    ELSE _notify_sync(n)

\* Signal._notify with Signal._notify_async: with run_async and a loop a
\* new future is returned and _notify_soon is handed to loop.call_soon;
\* otherwise _notify_sync runs inline
_notify(n, run_async, loop) ==
    IF run_async /\ loop
    THEN [n EXCEPT !.st = "scheduled", !.outer = "pending"]
    ELSE _notify_sync(n)

\* Signal.notify with Signal._notify: the subscribers are merged; with a
\* notify hook the hook gets a callback that runs _notify with the default
\* notify_external, and decides itself whether to call it; without one
\* _notify runs with the caller's notify_external.  _notify schedules
\* _notify_soon when run_async is set and a loop is given, and runs
\* _notify_sync inline otherwise.
Notify ==
    \E inst \in Instances \cup {NoInstance}, no_ext \in BOOLEAN,
       c \in 1..Len(Calls), run_async \in BOOLEAN, loop \in BOOLEAN,
       hook_calls \in BOOLEAN :
        /\ nt.st = "none"
        /\ (inst = NoInstance) => ~no_ext
        /\ (~cfg.fnotify) => hook_calls
        /\ loop => run_async
        /\ LET n == [NoNotify EXCEPT
                        !.inst = inst, !.call = c, !.no_ext = no_ext,
                        !.hooked = cfg.fnotify,
                        !.ext = IF cfg.fnotify THEN TRUE ELSE ~no_ext,
                        !.subs = EffectiveSubscribers(inst),
                        !.prior = nt.prior]
           IN  nt' = IF ~hook_calls THEN [n EXCEPT !.st = "returned"]
                     ELSE _notify(n, run_async, loop)
        /\ op' = NoOp
        /\ UNCHANGED <<subscribers, instance_subscribers, cfg, mr, ad, proxies, executor, collected>>

\* _notify_soon, the callback Signal._notify_async hands to loop.call_soon:
\* the outer future gets the future _notify_sync returns; when
\* _notify_sync raises, set_result is never reached
NotifySoon ==
    /\ nt.st = "scheduled"
    /\ LET r == _notify_sync(nt)
       IN  nt' = IF r.st = "raised" THEN [r EXCEPT !.st = "raised_in_loop"]
                 ELSE [r EXCEPT !.outer = "set"]
    /\ UNCHANGED <<subscribers, instance_subscribers, cfg, op, mr, ad, proxies, executor, collected>>

\* a deferred computation of the notify settles; only the coroutine of a
\* handler can fail
CoroSettle ==
    \E i \in 1..Len(nt.coros), ok \in BOOLEAN :
        /\ nt.fut = "pending"
        /\ nt.cst[i] = "started"
        /\ ok \/ nt.coros[i].id # ExtId
        /\ nt' = [nt EXCEPT !.cst[i] = IF ok THEN "ok" ELSE "fail",
                            !.order = Append(@, i)]
        /\ UNCHANGED <<subscribers, instance_subscribers, cfg, op, mr, ad, proxies, executor, collected>>

\* a faulty variant of GatherResult: the values in the order the coroutines completed
GatherResult_completion(n) ==
    [k \in 1..Len(n.coros) |-> n.coros[n.order[k]].val]

\* the result of asyncio.gather over the coroutines: argument order
GatherResult(n) ==
    [k \in 1..Len(n.coros) |-> n.coros[k].val]

\* a faulty variant of set_exception: the failure is dropped and the future
\* resolves with the immediate results
set_exception_dropped(n) == [n EXCEPT !.fut = "resolved"]

\* result_fut.set_exception(e): the future notify returned fails with the
\* failure of the gathering
set_exception(n) == [n EXCEPT !.fut = "failed"]

\* Signal._parallel_handlers_exec_cb, the done callback of the gathering
_parallel_handlers_exec_cb ==
    /\ ~cfg.seq
    /\ nt.fut = "pending"
    /\ \/ /\ \E i \in 1..Len(nt.coros) : nt.cst[i] = "fail"
          /\ nt' = set_exception(nt)
       \/ /\ \A i \in 1..Len(nt.coros) : nt.cst[i] = "ok"
          /\ nt' = [nt EXCEPT !.result = @ \o GatherResult(nt),
                              !.fut = "resolved"]
    /\ UNCHANGED <<subscribers, instance_subscribers, cfg, op, mr, ad, proxies, executor, collected>>

\* Signal._sequential_handlers_exec resumes from "await coro": the value is
\* appended and the next coroutine awaited, or the list returned
_sequential_handlers_exec ==
    /\ cfg.seq
    /\ nt.fut = "pending"
    /\ \/ /\ nt.cst[nt.pos] = "fail"
          /\ nt' = [nt EXCEPT !.fut = "failed"]
       \/ /\ nt.cst[nt.pos] = "ok"
          /\ nt' = IF nt.pos < Len(nt.coros)
                   THEN [nt EXCEPT !.result = Append(@, nt.coros[nt.pos].val),
                                   !.pos = @ + 1,
                                   !.cst[nt.pos + 1] = "started"]
                   ELSE [nt EXCEPT !.result = Append(@, nt.coros[nt.pos].val),
                                   !.fut = "resolved"]
    /\ UNCHANGED <<subscribers, instance_subscribers, cfg, op, mr, ad, proxies, executor, collected>>

\* The caller awaits the future notify returned, once it is settled: the
\* await returns the list or raises the failure the future holds.
AwaitResult ==
    /\ nt.st = "returned"
    /\ nt.fut \in {"resolved", "failed"}
    /\ nt.awaited = "none"
    /\ nt' = [nt EXCEPT !.awaited = IF nt.fut = "failed" THEN "raised"
                                    ELSE "value"]
    /\ UNCHANGED <<subscribers, instance_subscribers, cfg, op, mr, ad, proxies, executor, collected>>

\* The caller is done with an awaited notify and goes on to the next call;
\* all that is kept of the notify is how its await ended.
NextCall ==
    /\ nt.awaited # "none"
    /\ nt' = [NoNotify EXCEPT !.prior = nt.awaited]
    /\ UNCHANGED <<subscribers, instance_subscribers, cfg, op, mr, ad, proxies, executor, collected>>

(***************************************************************************)
(* The scheduled dispatch, one subscriber at a time                        *)
(***************************************************************************)
\* what a registry call made without hooks leaves in the set it targets
RegistryCall(kind, subs, cback) ==
    CASE kind = "connect" -> _connect(subs, cback)
      [] kind = "disconnect" -> _disconnect(subs, cback).subs
      [] kind = "clear" -> <<>>
      [] OTHER -> subs

\* a faulty variant of Iterated: the loop goes through the sets as they are
\* when it runs
Iterated_live(n) == EffectiveSubscribers(n.inst)

\* Signal._notify_sync, line 209: the loop goes through its subscribers
\* parameter, the list Signal.notify built at line 384 and the closure
\* _notify_soon kept
Iterated(n) == n.subs

\* other code calls connect, disconnect or clear after a notify with
\* run_async returned and before the loop calls _notify_soon.  nt.during
\* tells who made a registry call since the notify was called; one such
\* call is followed per notify.
MeanwhileCall ==
    \E kind \in {"connect", "disconnect", "clear"},
       inst \in Instances \cup {NoInstance}, cback \in Handlers :
        /\ nt.st = "scheduled"
        /\ nt.during = "none"
        /\ (kind = "clear") => cback = 1
        /\ (kind = "connect") =>
              IsIn(cback, Target(inst)) \/ Len(Target(inst)) < MaxSubs
        /\ SetTarget(inst, RegistryCall(kind, Target(inst), cback))
        /\ op' = [kind |-> kind, cback |-> IF kind = "clear" THEN 0 ELSE cback,
                  inst |-> inst, present |-> IsIn(cback, Target(inst)),
                  raised |-> FALSE]
        /\ nt' = [nt EXCEPT !.during = "caller"]
        /\ UNCHANGED <<cfg, mr, ad, proxies, executor, collected>>

\* one turn of the loop of Signal._notify_sync inside _notify_soon, lines
\* 209-228: the next subscriber is adapted and invoked, and while it runs it
\* may itself call connect, disconnect or clear on the signal; an error
\* ends the loop and leaves _notify_soon
DispatchStep ==
    \E kind \in {"none", "connect", "disconnect", "clear"},
       inst \in Instances \cup {NoInstance}, cback \in Handlers :
        /\ nt.st \in {"scheduled", "dispatching"}
        /\ Len(nt.calls) < Len(Iterated(nt))
        /\ (kind # "none") => nt.during = "none"
        /\ (kind \in {"none", "clear"}) => cback = 1
        /\ (kind = "none") => inst = NoInstance
        /\ (kind = "connect") =>
              IsIn(cback, Target(inst)) \/ Len(Target(inst)) < MaxSubs
        /\ LET method == Iterated(nt)[Len(nt.calls) + 1]
               recv == SignalCall(HandlerSig(method), Calls[nt.call].args,
                                  Calls[nt.call].kwargs)
           IN  IF recv.err
               THEN /\ kind = "none"
                    /\ nt' = [nt EXCEPT !.st = "raised_in_loop"]
                    /\ UNCHANGED <<subscribers, instance_subscribers, op>>
               ELSE /\ nt' = [nt EXCEPT
                                !.st = "dispatching",
                                !.calls = Append(@, method),
                                !.during = IF kind = "none" THEN @ ELSE "handler"]
                    /\ SetTarget(inst, RegistryCall(kind, Target(inst), cback))
                    /\ op' = IF kind = "none" THEN op
                             ELSE [kind |-> kind,
                                   cback |-> IF kind = "clear" THEN 0 ELSE cback,
                                   inst |-> inst,
                                   present |-> IsIn(cback, Target(inst)),
                                   raised |-> FALSE]
        /\ UNCHANGED <<cfg, mr, ad, proxies, executor, collected>>

\* the loop of Signal._notify_sync is over, lines 229-241 and 199: the
\* results of the subscribers that were invoked are put together and the
\* future _notify_async returned is set
DispatchEnd ==
    /\ nt.st \in {"scheduled", "dispatching"}
    /\ Len(nt.calls) >= Len(Iterated(nt))
    /\ LET r == _notify_sync([nt EXCEPT !.subs = nt.calls])
       IN  nt' = [r EXCEPT !.subs = nt.subs, !.outer = "set"]
    /\ UNCHANGED <<subscribers, instance_subscribers, cfg, op, mr, ad, proxies, executor, collected>>

\* the caller goes on to its next call without awaiting the future of the
\* scheduled notify
Afterwards ==
    /\ nt.st \in {"returned", "raised_in_loop"}
    /\ nt.outer # "none"
    /\ nt' = [NoNotify EXCEPT !.prior = nt.prior]
    /\ UNCHANGED <<subscribers, instance_subscribers, cfg, op, mr, ad, proxies, executor, collected>>

(***************************************************************************)
(* Instance proxies                                                        *)
(***************************************************************************)
\* The objects behind Signal.__get__ have identity: an InstanceProxy is its
\* index in pinst / psubs, a per-instance subscriber dict its index in
\* heap.  _iproxies and data (Signal.instance_subscribers) map an instance
\* to such an index, 0 when the instance is not a key.  got is the last
\* result of __get__ (0 for the Signal itself), connected the handlers
\* connected through the proxies of each instance, seen the subscriber
\* list of the last notify through a proxy.
ProxyInstances == {"c", "d"}

\* Signal.__init__, lines 100 and 105: both weak dictionaries are empty
NoProxies ==
    [_iproxies |-> [i \in ProxyInstances |-> 0],
     data |-> [i \in ProxyInstances |-> 0],
     pinst |-> <<>>, psubs |-> <<>>, heap |-> <<>>,
     got |-> [inst |-> NoInstance, res |-> -1],
     connected |-> [i \in ProxyInstances |-> {}],
     last |-> "none", seen |-> <<>>]

\* InstanceProxy.get_subscribers: the dict of the instance, made when the
\* instance is not yet a key
get_subscribers(p, inst) ==
    IF p.data[inst] = 0
    THEN [p EXCEPT !.heap = Append(@, <<>>), !.data[inst] = Len(p.heap) + 1]
    ELSE p

\* InstanceProxy.__init__ and its registration in Signal._iproxies
InstanceProxy__init__(p, inst) ==
    LET q == get_subscribers(p, inst)
    IN  [q EXCEPT !.pinst = Append(@, inst),
                  !.psubs = Append(@, q.data[inst]),
                  !._iproxies[inst] = Len(q.pinst) + 1]

\* a faulty variant of __get__: a proxy is made at every access
__get__nocache(p, inst) ==
    IF inst # NoInstance
    THEN LET q == InstanceProxy__init__(p, inst)
         IN  [q EXCEPT !.got = [inst |-> inst, res |-> q._iproxies[inst]]]
    ELSE [p EXCEPT !.got = [inst |-> NoInstance, res |-> 0]]

\* Signal.__get__
__get__(p, inst) ==
    IF inst # NoInstance
    THEN LET q == IF p._iproxies[inst] = 0 THEN InstanceProxy__init__(p, inst)
                  ELSE p
         IN  [q EXCEPT !.got = [inst |-> inst, res |-> q._iproxies[inst]]]
    ELSE [p EXCEPT !.got = [inst |-> NoInstance, res |-> 0]]

\* the signal is accessed through an instance or through the class
Get ==
    \E inst \in ProxyInstances \cup {NoInstance} :
        /\ Len(proxies.pinst) < MaxProxies
        /\ proxies' = [__get__(proxies, inst) EXCEPT !.last = "get"]
        /\ UNCHANGED <<subscribers, instance_subscribers, cfg, op, nt, mr, ad, executor, collected>>

\* InstanceProxy.connect on the proxy the last access returned:
\* Signal.connect with the proxy's own subscribers (no connect hook)
ProxyConnect ==
    \E cback \in Handlers :
        LET px == proxies.got.res
            d == proxies.psubs[px]
        IN  /\ px > 0
            /\ IsIn(cback, proxies.heap[d]) \/ Len(proxies.heap[d]) < MaxSubs
            /\ proxies' = [proxies EXCEPT
                    !.heap[d] = _connect(@, cback),
                    !.connected[proxies.pinst[px]] = @ \cup {cback},
                    !.last = "connect"]
            /\ UNCHANGED <<subscribers, instance_subscribers, cfg, op, nt, mr, ad, executor, collected>>

\* InstanceProxy.notify on the proxy the last access returned, up to the
\* subscriber list of Signal.notify, line 384
ProxyNotify ==
    LET px == proxies.got.res
    IN  /\ px > 0
        /\ proxies' = [proxies EXCEPT
                !.seen = MergeInto(MergeInto(subscribers,
                                        _get_class_handlers(proxies.pinst[px])),
                                   proxies.heap[proxies.psubs[px]]),
                !.last = "notify"]
        /\ UNCHANGED <<subscribers, instance_subscribers, cfg, op, nt, mr, ad, executor, collected>>

(***************************************************************************)
(* The signal used through two instances and through the class             *)
(***************************************************************************)
\* connect, disconnect or clear made through the proxy of an instance
\* (InstanceProxy.connect, disconnect and clear, on the proxy's own set) or
\* on the Signal itself (the class-level set), without hooks
ScopeCall ==
    \E kind \in {"connect", "disconnect", "clear"},
       inst \in ProxyInstances \cup {NoInstance}, cback \in Handlers :
        /\ nt.st = "none"
        /\ (kind = "clear") => cback = 1
        /\ (kind = "connect") =>
              IsIn(cback, Target(inst)) \/ Len(Target(inst)) < MaxSubs
        /\ SetTarget(inst, RegistryCall(kind, Target(inst), cback))
        /\ op' = [kind |-> kind, cback |-> IF kind = "clear" THEN 0 ELSE cback,
                  inst |-> inst, present |-> IsIn(cback, Target(inst)),
                  raised |-> FALSE]
        /\ UNCHANGED <<cfg, nt, mr, ad, proxies, executor, collected>>

\* InstanceProxy.notify through the proxy of an instance, or Signal.notify
\* on the Signal itself, without run_async: the subscribers are merged and
\* _notify_sync runs inline
ScopeNotify ==
    \E inst \in ProxyInstances \cup {NoInstance}, c \in 1..Len(Calls) :
        /\ nt.st = "none"
        /\ nt' = _notify([NoNotify EXCEPT
                            !.inst = inst, !.call = c, !.ext = TRUE,
                            !.subs = EffectiveSubscribers(inst)],
                         FALSE, inst # NoInstance)
        /\ op' = NoOp
        /\ UNCHANGED <<subscribers, instance_subscribers, cfg, mr, ad, proxies, executor, collected>>

(***************************************************************************)
(* Executor                                                                *)
(***************************************************************************)
\* An endpoint is [weak, live, ret]: whether it is a weakref.ref, whether
\* its referent is alive, and what the callable returns: a value, None,
\* NoResult, a MultipleResults of two values (done), a MultipleResults of a
\* value and an awaitable (not done), or an awaitable.  Every endpoint
\* accepts the call.
Returns == {"value", "None", "NoResult", "mr_done", "mr_pending", "awaitable"}

Endpoints == [weak : BOOLEAN, live : {TRUE}, ret : Returns]

\* the entries of the MultipleResults the endpoint at index i returns
MREntries(i, ret) ==
    IF ret = "mr_done"
    THEN << [aw |-> FALSE, v |-> <<70 + i>>], [aw |-> FALSE, v |-> <<80 + i>>] >>
    ELSE << [aw |-> FALSE, v |-> <<70 + i>>], [aw |-> TRUE, v |-> <<80 + i>>] >>

\* MultipleResults.results of the object an endpoint returns, as [set, v]:
\* the class attribute None unless the object is done
ResultsOf(i, ret) ==
    LET m == MultipleResults__init__(MREntries(i, ret), FALSE)
    IN  [set |-> m.done, v |-> IF m.done THEN m.results[1] ELSE <<>>]

NoExecutor ==
    [endpoints |-> <<>>, adapt_params |-> TRUE, concurrent |-> FALSE,
     ran |-> FALSE, raised |-> "none", calls |-> <<>>, results |-> <<>>]

\* Executor.__init__ with no exec_wrapper
ExecutorInit ==
    \E n \in 0..MaxEndpoints, ap \in BOOLEAN, c \in BOOLEAN :
        \E eps \in [1..n -> Endpoints] :
            executor = [NoExecutor EXCEPT !.endpoints = eps,
                                          !.adapt_params = ap,
                                          !.concurrent = c]

RECURSIVE exec_all_endpoints(_, _, _)
\* Executor.exec_all_endpoints, the loop from endpoint i on: a weak endpoint
\* is dereferenced; the handler is adapted and called, which raises
\* TypeError when the dereference gave None; a MultipleResults adds its
\* results attribute to the list, which raises TypeError when that is
\* None; NoResult adds nothing; any other value is appended.
exec_all_endpoints(e, i, acc) ==
    IF i > Len(e.endpoints) THEN acc
    ELSE LET ep == e.endpoints[i]
             called == [acc EXCEPT !.calls = Append(@, i)]
         IN  IF ep.weak /\ ~ep.live
             THEN [acc EXCEPT !.raised = "TypeError"]
             ELSE IF ep.ret \in {"mr_done", "mr_pending"}
             THEN IF ResultsOf(i, ep.ret).set
                  THEN exec_all_endpoints(e, i + 1,
                          [called EXCEPT !.results = @ \o ResultsOf(i, ep.ret).v])
                  ELSE [called EXCEPT !.raised = "TypeError"]
             ELSE IF ep.ret = "NoResult"
             THEN exec_all_endpoints(e, i + 1, called)
             ELSE exec_all_endpoints(e, i + 1,
                     [called EXCEPT !.results = Append(@,
                         CASE ep.ret = "value" -> [aw |-> FALSE, v |-> <<40 + i>>]
                           [] ep.ret = "None" -> [aw |-> FALSE, v |-> <<>>]
                           [] OTHER -> [aw |-> TRUE, v |-> <<i>>])])

\* the referent of a weak endpoint is garbage-collected before the run
Expire ==
    \E i \in 1..Len(executor.endpoints) :
        /\ ~executor.ran
        /\ executor.endpoints[i].weak /\ executor.endpoints[i].live
        /\ executor' = [executor EXCEPT !.endpoints[i].live = FALSE]
        /\ UNCHANGED <<subscribers, instance_subscribers, cfg, op, nt, mr, ad, proxies, collected>>

\* Executor.run with no exec_wrapper: exec_all_endpoints, whose list goes
\* to a new MultipleResults; an exception is logged and raised again
Run ==
    /\ ~executor.ran
    /\ LET r == exec_all_endpoints(executor, 1,
                    [calls |-> <<>>, results |-> <<>>, raised |-> "none"])
       IN  /\ executor' = [executor EXCEPT !.ran = TRUE, !.raised = r.raised,
                                            !.calls = r.calls,
                                            !.results = r.results]
           /\ mr' = IF r.raised = "none"
                    THEN MultipleResults__init__(r.results, executor.concurrent)
                    ELSE mr
    /\ UNCHANGED <<subscribers, instance_subscribers, cfg, op, nt, ad, proxies, collected>>

(***************************************************************************)
(* Specifications                                                          *)
(***************************************************************************)
Configs ==
    [fnotify : BOOLEAN, fconnect : BOOLEAN, fdisconnect : BOOLEAN,
     ext : {"none", "sync", "async"}, seq : BOOLEAN]

NoConfig == [fnotify |-> FALSE, fconnect |-> FALSE, fdisconnect |-> FALSE,
             ext |-> "none", seq |-> FALSE]

\* Signal.__init__: empty subscriber sets; notify hook, external signaller
\* and sequential flag as constructed (no connect or disconnect hook)
Init ==
    /\ subscribers = <<>>
    /\ instance_subscribers = [i \in Instances |-> <<>>]
    /\ cfg \in {c \in Configs : ~c.fconnect /\ ~c.fdisconnect}
    /\ op = NoOp
    /\ proxies = NoProxies
    /\ executor = NoExecutor
    /\ collected = {}
    /\ nt = NoNotify
    /\ mr = NoMR
    /\ ad = NoAdapt

Next ==
    \/ Connect
    \/ Disconnect
    \/ Clear
    \/ Notify
    \/ NotifySoon
    \/ CoroSettle
    \/ _parallel_handlers_exec_cb
    \/ _sequential_handlers_exec

Spec == Init /\ [][Next]_vars

\* notify after notify on a Signal with no hooks and no external signaller:
\* each notify is followed to the await of its result, then the next is
\* called
InitAgain ==
    /\ subscribers = <<>>
    /\ instance_subscribers = [i \in Instances |-> <<>>]
    /\ cfg \in {c \in Configs : /\ ~c.fconnect /\ ~c.fdisconnect
                                 /\ ~c.fnotify /\ c.ext = "none"}
    /\ op = NoOp
    /\ proxies = NoProxies
    /\ executor = NoExecutor
    /\ collected = {}
    /\ nt = NoNotify
    /\ mr = NoMR
    /\ ad = NoAdapt

NextAgain ==
    \/ Connect
    \/ Notify
    \/ NotifySoon
    \/ CoroSettle
    \/ _parallel_handlers_exec_cb
    \/ _sequential_handlers_exec
    \/ AwaitResult
    \/ NextCall

SpecAgain == InitAgain /\ [][NextAgain]_vars

\* the signal is accessed through instances and through the class, and
\* used through what the access returned
InitProxy ==
    /\ subscribers = <<>>
    /\ instance_subscribers = [i \in Instances |-> <<>>]
    /\ cfg = NoConfig
    /\ op = NoOp
    /\ proxies = NoProxies
    /\ executor = NoExecutor
    /\ collected = {}
    /\ nt = NoNotify
    /\ mr = NoMR
    /\ ad = NoAdapt

NextProxy == Get \/ ProxyConnect \/ ProxyNotify

SpecProxy == InitProxy /\ [][NextProxy]_vars

\* an Executor is built over its endpoints and run once
InitExecutor ==
    /\ subscribers = <<>>
    /\ instance_subscribers = [i \in Instances |-> <<>>]
    /\ cfg = NoConfig
    /\ op = NoOp
    /\ proxies = NoProxies
    /\ ExecutorInit
    /\ collected = {}
    /\ nt = NoNotify
    /\ mr = NoMR
    /\ ad = NoAdapt

NextExecutor == Expire \/ Run

SpecExecutor == InitExecutor /\ [][NextExecutor]_vars

\* a Signal with no hooks and no external signaller, whose handlers' owners
\* may be collected between the calls
InitWeak ==
    /\ subscribers = <<>>
    /\ instance_subscribers = [i \in Instances |-> <<>>]
    /\ cfg = NoConfig
    /\ op = NoOp
    /\ proxies = NoProxies
    /\ executor = NoExecutor
    /\ collected = {}
    /\ nt = NoNotify
    /\ mr = NoMR
    /\ ad = NoAdapt

NextWeak ==
    \/ Connect
    \/ OwnerCollected
    \/ Notify
    \/ NotifySoon
    \/ CoroSettle
    \/ _parallel_handlers_exec_cb

SpecWeak == InitWeak /\ [][NextWeak]_vars

\* a Signal with no hooks on a loop that keeps running: a callback handed
\* to loop.call_soon is called, a started deferred computation settles, and
\* the done callback of the gathering and the task of
\* _sequential_handlers_exec are resumed
InitLive ==
    /\ subscribers = <<>>
    /\ instance_subscribers = [i \in Instances |-> <<>>]
    /\ cfg \in {c \in Configs : ~c.fconnect /\ ~c.fdisconnect /\ ~c.fnotify}
    /\ op = NoOp
    /\ proxies = NoProxies
    /\ executor = NoExecutor
    /\ collected = {}
    /\ nt = NoNotify
    /\ mr = NoMR
    /\ ad = NoAdapt

NextLive ==
    \/ Connect
    \/ Notify
    \/ NotifySoon
    \/ CoroSettle
    \/ _parallel_handlers_exec_cb
    \/ _sequential_handlers_exec

\* one iteration of the loop after the scheduled callback: a deferred
\* computation settles, or a done callback or a task is resumed
LoopStep ==
    \/ CoroSettle
    \/ _parallel_handlers_exec_cb
    \/ _sequential_handlers_exec

\* the loop calls what call_soon was given.  NotifySoon is enabled exactly
\* while the callback is scheduled and every NotifySoon step leaves that
\* position, so this is WF_vars(NotifySoon) written without ENABLED
LoopCallsSoon == []<>(nt.st # "scheduled")

SpecLive ==
    InitLive /\ [][NextLive]_vars /\ WF_vars(LoopStep) /\ LoopCallsSoon

\* a Signal with no hooks and no external signaller whose scheduled
\* dispatch is followed one subscriber at a time, with registry calls made
\* by other code before the callback runs and by the subscribers while it
\* runs
InitSnapshot ==
    /\ subscribers = <<>>
    /\ instance_subscribers = [i \in Instances |-> <<>>]
    /\ cfg \in {c \in Configs : /\ ~c.fconnect /\ ~c.fdisconnect /\ ~c.fnotify
                                 /\ c.ext = "none" /\ ~c.seq}
    /\ op = NoOp
    /\ proxies = NoProxies
    /\ executor = NoExecutor
    /\ collected = {}
    /\ nt = NoNotify
    /\ mr = NoMR
    /\ ad = NoAdapt

NextSnapshot ==
    \/ Connect
    \/ Notify
    \/ MeanwhileCall
    \/ DispatchStep
    \/ DispatchEnd
    \/ Afterwards

SpecSnapshot == InitSnapshot /\ [][NextSnapshot]_vars

\* a Signal with no hooks and no external signaller that is a member of a
\* class with two instances: registry calls through either instance and
\* on the class, then a notify through either instance or the class
InitScope ==
    /\ subscribers = <<>>
    /\ instance_subscribers = [i \in ProxyInstances |-> <<>>]
    /\ cfg \in {c \in Configs : /\ ~c.fconnect /\ ~c.fdisconnect /\ ~c.fnotify
                                 /\ c.ext = "none" /\ ~c.seq}
    /\ op = NoOp
    /\ proxies = NoProxies
    /\ executor = NoExecutor
    /\ collected = {}
    /\ nt = NoNotify
    /\ mr = NoMR
    /\ ad = NoAdapt

NextScope == ScopeCall \/ ScopeNotify

SpecScope == InitScope /\ [][NextScope]_vars

\* the subscriber sets alone, with or without connect and disconnect hooks
InitRegistry ==
    /\ subscribers = <<>>
    /\ instance_subscribers = [i \in Instances |-> <<>>]
    /\ cfg \in {c \in Configs : ~c.fnotify /\ c.ext = "none" /\ ~c.seq}
    /\ op = NoOp
    /\ proxies = NoProxies
    /\ executor = NoExecutor
    /\ collected = {}
    /\ nt = NoNotify
    /\ mr = NoMR
    /\ ad = NoAdapt

NextRegistry == Connect \/ Disconnect \/ Clear

SpecRegistry == InitRegistry /\ [][NextRegistry]_vars

\* a MultipleResults object is built from an iterable and awaited
InitMR ==
    /\ subscribers = <<>>
    /\ instance_subscribers = [i \in Instances |-> <<>>]
    /\ cfg = NoConfig
    /\ op = NoOp
    /\ proxies = NoProxies
    /\ executor = NoExecutor
    /\ collected = {}
    /\ nt = NoNotify
    /\ MRInit
    /\ ad = NoAdapt

NextMR == MRAwait \/ MRSettle \/ MRGatherResume \/ MRSeqResume

SpecMR == InitMR /\ [][NextMR]_vars

\* one call is adapted for one handler by the Signal and by the Executor
InitAdapt ==
    /\ subscribers = <<>>
    /\ instance_subscribers = [i \in Instances |-> <<>>]
    /\ cfg = NoConfig
    /\ op = NoOp
    /\ proxies = NoProxies
    /\ executor = NoExecutor
    /\ collected = {}
    /\ nt = NoNotify
    /\ mr = NoMR
    /\ AdaptInit

NextAdapt == AdaptBySignal \/ AdaptByExecutor

SpecAdapt == InitAdapt /\ [][NextAdapt]_vars

(***************************************************************************)
(* Properties                                                              *)
(***************************************************************************)
\* what handler h returns, or its coroutine resolves to, for call c
ReturnOf(h, c) ==
    Body(h, SignalCall(HandlerSig(h), Calls[c].args, Calls[c].kwargs))

\* whether handler h accepts call c
Accepts(h, c) ==
    ~SignalCall(HandlerSig(h), Calls[c].args, Calls[c].kwargs).err

Without(s, t) == LET Keep(x) == ~IsIn(x, t) IN SelectSeq(s, Keep)

Only(s, S) == LET Keep(x) == x \in S IN SelectSeq(s, Keep)

IsPrefix(s, t) == Len(s) <= Len(t) /\ s = SubSeq(t, 1, Len(s))

\* the notify recorded in nt ran its dispatch (a notify hook, if any,
\* called the callback) and no subscriber raised
Dispatched == nt.st = "returned" /\ nt.fut # "none"

AllSync(s) == \A i \in 1..Len(s) : ~IsCoro(s[i])

\* C1: on a Signal with no hooks and no external signaller whose
\* subscribers are all synchronous, notify through the Signal invokes the
\* handlers in connect order (a connect of a new handler puts it last in
\* the subscriber set, and the dispatch follows the set) and its future is
\* resolved with their return values in that same order; notify(5, b=9)
\* with h1, h2 connected gives [1, ("x", 5, 9)].
C1_SyncHandlersInConnectOrder ==
    [][ /\ ( /\ op'.kind = "connect" /\ ~op'.present
             /\ ~cfg.fconnect /\ op'.inst = NoInstance )
           => subscribers' = Append(subscribers, op'.cback)
        /\ ( /\ nt'.st \in {"returned", "raised"}
             /\ ~nt'.hooked /\ cfg'.ext = "none"
             /\ nt'.inst = NoInstance /\ AllSync(subscribers') )
           => /\ IsPrefix(nt'.calls, subscribers')
              /\ nt'.st = "returned" =>
                   /\ nt'.calls = subscribers'
                   /\ nt'.fut = "resolved"
                   /\ nt'.result = [i \in 1..Len(subscribers') |->
                                       ReturnOf(subscribers'[i], nt'.call)]
                   /\ (subscribers' = <<1, 2>> /\ nt'.call = 1)
                        => nt'.result = << <<1>>, <<120, 5, 9>> >>
      ]_vars

C1_Witness ==
    /\ nt.st = "returned" /\ ~nt.hooked /\ cfg.ext = "none"
    /\ nt.inst = NoInstance
    /\ subscribers = <<2, 1>>
    /\ nt.result = << <<120, 5, 9>>, <<1>> >>

\* C2: the subscriber list of a notify through an instance is the
\* class-level subscribers, then the class-body handlers not among them,
\* then the instance-level subscribers not among either; no handler is in
\* it twice, a notify that completes invokes each entry once in that
\* order, and a class-body handler comes before a handler connected on the
\* instance at runtime.
C2_EffectiveOrder ==
    (nt.st # "none" /\ nt.inst # NoInstance) =>
        LET cls == subscribers
            body == Without(_get_class_handlers(nt.inst), cls)
            own == Without(instance_subscribers[nt.inst],
                           cls \o _get_class_handlers(nt.inst))
        IN  /\ nt.subs = cls \o body \o own
            /\ NoDup(nt.subs)
            /\ Range(nt.subs) = Range(cls) \cup Range(_get_class_handlers(nt.inst))
                                   \cup Range(instance_subscribers[nt.inst])
            /\ Dispatched => nt.calls = nt.subs
            /\ Dispatched =>
                 \A x \in Range(body), y \in Range(own) : Before(x, y, nt.calls)

C2_Witness ==
    /\ Dispatched /\ nt.inst = "c"
    /\ subscribers = <<1>>
    /\ instance_subscribers["c"] = <<3, 2>>
    /\ nt.calls = <<1, 2, 3>>

\* C3 (as claimed): a second await of a MultipleResults whose first await
\* completed returns the tuple the first one returned, and starts no
\* deferred entry again.
C3_SecondAwaitSame ==
    (Len(mr.rets) >= 2 /\ mr.rets[1].raised = "none") =>
        /\ mr.rets[2] = mr.rets[1]
        /\ \A i \in DOMAIN mr.nstart : mr.nstart[i] <= 1

\* C4: an await of a MultipleResults that completes returns a tuple as
\* long as the input, with every plain value at its index and every
\* deferred entry replaced at its index by the value it resolved to, in
\* concurrent and in sequential mode and whatever the order the deferred
\* entries completed in.
C4_ResolvedInPlace ==
    \A k \in 1..Len(mr.rets) :
        mr.rets[k].raised = "none" =>
            LET t == mr.rets[k].value[1]
            IN  /\ Len(t) = Len(mr.input)
                /\ \A i \in 1..Len(mr.input) :
                      t[i] = IF mr.input[i].aw
                             THEN [aw |-> FALSE, v |-> Resolved(i)]
                             ELSE mr.input[i]
                /\ mr.results = <<t>>

C4_Witness ==
    /\ mr.concurrent
    /\ Len(mr.rets) = 1 /\ mr.rets[1].raised = "none"
    /\ Len(mr.input) = 3
    /\ ~mr.input[1].aw /\ mr.input[2].aw /\ mr.input[3].aw
    /\ mr.order = <<3, 2>>
    /\ mr.rets[1].value = << <<Value(1), [aw |-> FALSE, v |-> Resolved(2)],
                              [aw |-> FALSE, v |-> Resolved(3)]>> >>

\* C5 (as claimed): the list a notify resolves to holds at position i the
\* result of the i-th invoked handler.
C5_ResultInInvocationOrder ==
    (Dispatched /\ nt.fut = "resolved") =>
        \A i \in 1..Len(nt.calls) :
            /\ i <= Len(nt.result)
            /\ nt.result[i] = ReturnOf(nt.calls[i], nt.call)

\* C5 (amended): the list a notify resolves to holds the values of the
\* handlers that returned immediately, in invocation order, then the
\* resolved values of the handlers that returned a deferred computation,
\* in invocation order, then the outcome of the external signaller when
\* that is deferred.
C5_ImmediateThenDeferred ==
    (Dispatched /\ nt.fut = "resolved") =>
        LET imm == Only(nt.calls, {h \in Handlers : ~IsCoro(h)})
            def == Only(nt.calls, {h \in Handlers : IsCoro(h)})
        IN  nt.result =
                [i \in 1..Len(imm) |-> ReturnOf(imm[i], nt.call)]
                \o [i \in 1..Len(def) |-> ReturnOf(def[i], nt.call)]
                \o (IF nt.published = 1 /\ cfg.ext = "async"
                    THEN <<ExtValue>> ELSE <<>>)

C5_Witness ==
    /\ Dispatched /\ nt.fut = "resolved"
    /\ nt.calls = <<3, 1>>
    /\ nt.order = <<2, 1>>
    /\ nt.result = << <<1>>, <<3, 5, 1>>, ExtValue >>

\* C6: with no hooks, no subscriber set ever holds a handler twice; a
\* connect of a handler that is present changes no set; a connect of an
\* absent handler puts it last; after a disconnect the handler is absent
\* and the other entries keep their order; a disconnect of an absent
\* handler changes nothing.
C6_IdempotentMembership ==
    [][ (~cfg.fconnect /\ ~cfg.fdisconnect) =>
          /\ NoDup(subscribers')
          /\ \A i \in Instances : NoDup(instance_subscribers'[i])
          /\ (op'.kind = "connect" /\ op'.present)
                => UNCHANGED <<subscribers, instance_subscribers>>
          /\ (op'.kind = "connect" /\ ~op'.present /\ op'.inst = NoInstance)
                => /\ subscribers' = Append(subscribers, op'.cback)
                   /\ UNCHANGED instance_subscribers
          /\ (op'.kind = "connect" /\ ~op'.present /\ op'.inst # NoInstance)
                => /\ instance_subscribers'[op'.inst] =
                          Append(instance_subscribers[op'.inst], op'.cback)
                   /\ UNCHANGED subscribers
          /\ (op'.kind = "disconnect" /\ op'.inst = NoInstance)
                => /\ subscribers' = Without(subscribers, <<op'.cback>>)
                   /\ UNCHANGED instance_subscribers
          /\ (op'.kind = "disconnect" /\ op'.inst # NoInstance)
                => /\ instance_subscribers'[op'.inst] =
                          Without(instance_subscribers[op'.inst], <<op'.cback>>)
                   /\ UNCHANGED subscribers
          /\ (op'.kind = "disconnect" /\ ~op'.present)
                => UNCHANGED <<subscribers, instance_subscribers>>
      ]_vars

C6_Witness ==
    /\ ~cfg.fconnect /\ ~cfg.fdisconnect
    /\ op.kind = "connect" /\ op.present /\ op.cback = 1
    /\ subscribers = <<1, 2>>

\* C7: a disconnect of a handler that is not in the set it targets raises
\* nothing and changes neither that set nor any other, with or without a
\* disconnect hook.
C7_DisconnectAbsentNoop ==
    [][ (op'.kind = "disconnect" /\ ~op'.present) =>
          /\ ~op'.raised
          /\ UNCHANGED <<subscribers, instance_subscribers>>
      ]_vars

C7_Witness ==
    /\ op.kind = "disconnect" /\ ~op.present /\ ~op.raised
    /\ op.inst = "c" /\ op.cback = 2
    /\ subscribers = <<2>>
    /\ instance_subscribers["c"] = <<1>>

C9_NoExtNeverPublishes ==
    nt.no_ext => nt.published = 0

\* C10: when a subscriber's adaptation or invocation raises in an inline
\* notify, the notify raises: the subscribers before the failing one were
\* each invoked once, in order, the failing one and those after it were
\* not, nothing was published and no future was returned; and a notify
\* returns only when every subscriber accepted the call.
C10_ErrorAbortsDispatch ==
    /\ nt.st = "raised" =>
         LET k == Len(nt.calls)
         IN  /\ k < Len(nt.subs)
             /\ nt.calls = SubSeq(nt.subs, 1, k)
             /\ NoDup(nt.calls)
             /\ \A i \in 1..k : Accepts(nt.subs[i], nt.call)
             /\ ~Accepts(nt.subs[k + 1], nt.call)
             /\ nt.published = 0
             /\ nt.fut = "none" /\ nt.outer = "none"
    /\ Dispatched =>
         \A i \in 1..Len(nt.subs) : Accepts(nt.subs[i], nt.call)

C10_Witness ==
    /\ nt.st = "raised"
    /\ cfg.ext # "none" /\ nt.ext
    /\ nt.subs = <<2, 1, 3>>
    /\ nt.calls = <<2>>

C12_OneScopePerInstance ==
    [][ LET P == proxies'
        IN  /\ \A a, b \in 1..Len(P.pinst) : P.pinst[a] = P.pinst[b] => a = b
            /\ P.got.inst = NoInstance => P.got.res \in {0, -1}
            /\ P.got.inst # NoInstance =>
                  /\ P.got.res > 0
                  /\ P.got.res = P._iproxies[P.got.inst]
                  /\ P.pinst[P.got.res] = P.got.inst
                  /\ P.psubs[P.got.res] = P.data[P.got.inst]
            /\ \A i \in ProxyInstances :
                  /\ proxies._iproxies[i] # 0 =>
                        P._iproxies[i] = proxies._iproxies[i]
                  /\ proxies.data[i] # 0 => P.data[i] = proxies.data[i]
            /\ P.last = "notify" =>
                  P.connected[P.got.inst] \subseteq Range(P.seen)
      ]_vars

C12_Witness ==
    /\ proxies.last = "notify"
    /\ proxies.got = [inst |-> "d", res |-> 1]
    /\ proxies._iproxies = [i \in ProxyInstances |-> IF i = "d" THEN 1 ELSE 2]
    /\ proxies.connected["d"] = {1, 3}
    /\ proxies.seen = <<2, 3, 1>>

\* C13: a notify with run_async and a loop returns a pending future
\* having invoked no subscriber and published nothing; the dispatch runs
\* in the callback the loop calls later, over the subscriber list of the
\* call, in the order an inline notify uses: every subscriber in list
\* order, then the external signaller, or the subscribers before the first
\* one that raises.
C13_RunAsyncDefersDispatch ==
    [][ /\ (nt.st = "none" /\ nt'.st # "none" /\ nt'.outer # "none") =>
              /\ nt'.st = "scheduled"
              /\ nt'.outer = "pending"
              /\ nt'.calls = <<>> /\ nt'.published = 0 /\ nt'.fut = "none"
        /\ (nt.st = "scheduled" /\ nt'.st # "scheduled") =>
              /\ nt'.subs = nt.subs
              /\ IsPrefix(nt'.calls, nt.subs)
              /\ nt'.st = "returned" =>
                    /\ nt'.calls = nt.subs
                    /\ nt'.outer = "set"
                    /\ nt'.published =
                          (IF nt.ext /\ cfg.ext # "none" THEN 1 ELSE 0)
              /\ nt'.st # "returned" =>
                    /\ Len(nt'.calls) < Len(nt.subs)
                    /\ nt'.published = 0
      ]_vars

C13_Witness ==
    /\ nt.outer = "set" /\ nt.st = "returned"
    /\ nt.inst = "c"
    /\ nt.calls = <<1, 2, 3>>
    /\ nt.published = 1

\* what the endpoint at index i contributes to the aggregated list
Contribution(i, ep) ==
    CASE ep.ret = "NoResult" -> <<>>
      [] ep.ret \in {"mr_done", "mr_pending"} -> MREntries(i, ep.ret)
      [] ep.ret = "value" -> << [aw |-> FALSE, v |-> <<40 + i>>] >>
      [] ep.ret = "None" -> << [aw |-> FALSE, v |-> <<>>] >>
      [] OTHER -> << [aw |-> TRUE, v |-> <<i>>] >>

RECURSIVE Concat(_, _, _)
\* the concatenation of the contributions of the endpoints from i on that
\* are in S
Concat(eps, i, S) ==
    IF i > Len(eps) THEN <<>>
    ELSE (IF i \in S THEN Contribution(i, eps[i]) ELSE <<>>)
            \o Concat(eps, i + 1, S)

LiveEndpoints(e) ==
    {i \in 1..Len(e.endpoints) : e.endpoints[i].live}

RECURSIVE Ascending(_, _, _)
\* the members of S between i and n, in ascending order
Ascending(i, n, S) ==
    IF i > n THEN <<>>
    ELSE (IF i \in S THEN <<i>> ELSE <<>>) \o Ascending(i + 1, n, S)

\* C14 (as claimed): a run of an Executor none of whose endpoints returns
\* an unresolved aggregator raises no error, invokes exactly the endpoints
\* that are alive, in order, and aggregates their contributions; an
\* expired weak endpoint is skipped.
C14_ExpiredEndpointSkipped ==
    ( /\ executor.ran
      /\ \A i \in 1..Len(executor.endpoints) :
            executor.endpoints[i].ret # "mr_pending" ) =>
        /\ executor.raised = "none"
        /\ executor.calls = Ascending(1, Len(executor.endpoints),
                                       LiveEndpoints(executor))
        /\ executor.results = Concat(executor.endpoints, 1,
                                      LiveEndpoints(executor))

\* C15 (as claimed): the list aggregated by a run of an Executor whose
\* endpoints are all alive is the in-order concatenation of their
\* contributions: nothing for NoResult, the entries of a returned
\* aggregator, resolved or with pending entries, the returned value
\* (None included) otherwise.
C15_ResultsAreConcatenation ==
    (executor.ran /\ LiveEndpoints(executor) = 1..Len(executor.endpoints)) =>
        /\ executor.raised = "none"
        /\ executor.results = Concat(executor.endpoints, 1,
                                      1..Len(executor.endpoints))
        /\ mr.input = executor.results

\* C16: has_async of a MultipleResults is what construction made it, true
\* exactly when an entry of the iterable is deferred; an object built with
\* no deferred entry is done, its results are the input tuple and an await
\* of it never suspends; an object built with a deferred entry is not done
\* and has no results until one of its awaits has completed; a done
\* object has results, no entry of which is pending; an await that
\* completes leaves the object done; and results, once set, never change
\* and done never goes back.
C16_AggregatorState ==
    [][ LET m == mr'
            deferred == \E i \in 1..Len(m.input) : m.input[i].aw
            completed == \E k \in 1..Len(m.rets) : m.rets[k].raised = "none"
        IN  /\ m.has_async = deferred
            /\ m.has_async = mr.has_async /\ m.input = mr.input
            /\ ~deferred => /\ m.done
                             /\ m.results = <<m.input>>
                             /\ m.task = "idle"
            /\ (deferred /\ ~completed) => (~m.done /\ m.results = <<>>)
            /\ completed => m.done
            /\ m.done => /\ m.results # <<>>
                          /\ Len(m.results[1]) = Len(m.input)
                          /\ \A i \in 1..Len(m.input) : ~m.results[1][i].aw
            /\ mr.results # <<>> => m.results = mr.results
            /\ mr.done => m.done
      ]_vars

C16_Witness ==
    /\ mr.has_async /\ mr.done
    /\ Len(mr.input) = 3 /\ mr.input[2].aw /\ ~mr.input[3].aw
    /\ Len(mr.rets) = 2
    /\ mr.results = << <<Value(1), [aw |-> FALSE, v |-> Resolved(2)], Value(3)>> >>

\* C17: in sequential mode an await that a failing deferred entry ends
\* raises when the entry it is waiting on fails: every deferred entry
\* before that one resolved and was started once, no deferred entry after
\* it was ever started, and the object is neither done nor has results,
\* whatever is awaited afterwards.
C17_SequentialFailureStops ==
    (~mr.concurrent /\ \E k \in 1..Len(mr.rets) : mr.rets[k].raised = "failure") =>
        LET ixs == mr._coro_ixs
        IN  /\ mr.pos \in 1..Len(ixs)
            /\ mr.dst[ixs[mr.pos]] = "fail"
            /\ \A q \in 1..Len(ixs) :
                  /\ q < mr.pos => (mr.dst[ixs[q]] = "ok" /\ mr.nstart[ixs[q]] = 1)
                  /\ q > mr.pos => (mr.dst[ixs[q]] = "new" /\ mr.nstart[ixs[q]] = 0)
            /\ ~mr.done
            /\ mr.results = <<>>
            /\ \A k \in 1..Len(mr.rets) : mr.rets[k].raised # "none"

C17_Witness ==
    /\ ~mr.concurrent
    /\ mr._coro_ixs = <<1, 2, 3>>
    /\ mr.dst = <<"ok", "fail", "new">>
    /\ Len(mr.rets) = 2
    /\ mr.rets[1].raised = "failure"

C18_AnyOrder ==
    /\ Dispatched /\ ~cfg.seq
    /\ nt.order = <<2, 1>>

\* C19: when the owner of a connected bound method is collected, every
\* subscriber set loses that entry and keeps its other entries in their
\* order; a notify called afterwards has no collected handler in its
\* subscriber list and invokes none; it invokes its subscribers in list
\* order, and it raises only when a subscriber that is alive does not
\* accept the call.
C19_CollectedOwnerDropped ==
    [][ /\ \A h \in collected' \ collected :
              /\ subscribers' = Without(subscribers, <<h>>)
              /\ \A i \in Instances :
                    instance_subscribers'[i] =
                        Without(instance_subscribers[i], <<h>>)
        /\ \A h \in collected' :
              /\ ~IsIn(h, subscribers')
              /\ \A i \in Instances : ~IsIn(h, instance_subscribers'[i])
              /\ ~IsIn(h, nt'.subs)
              /\ ~IsIn(h, nt'.calls)
        /\ nt'.st \in {"returned", "raised", "raised_in_loop"} =>
              /\ nt'.subs = IF nt'.inst = NoInstance THEN subscribers'
                            ELSE subscribers'
                                   \o Without(_get_class_handlers(nt'.inst),
                                              subscribers')
                                   \o Without(instance_subscribers'[nt'.inst],
                                              subscribers' \o
                                                _get_class_handlers(nt'.inst))
              /\ IsPrefix(nt'.calls, nt'.subs)
              /\ nt'.st = "returned" => nt'.calls = nt'.subs
              /\ nt'.st # "returned" =>
                    /\ Len(nt'.calls) < Len(nt'.subs)
                    /\ ~Accepts(nt'.subs[Len(nt'.calls) + 1], nt'.call)
      ]_vars

C19_Witness ==
    /\ collected = {1}
    /\ subscribers = <<3>>
    /\ instance_subscribers["c"] = <<2>>
    /\ nt.st = "returned" /\ nt.inst = "c"
    /\ nt.calls = <<3, 2>>

C21_RunAsyncEventuallySettles ==
    (nt.outer = "pending") ~> (nt.outer \in {"set", "failed"})

\* C22: the handlers a notify dispatches to are the snapshot taken when
\* notify is called.  A notify takes as its list the merge of the sets as
\* they are at the call, so every earlier registry call is in it; while its
\* dispatch is scheduled or running, a connect, disconnect or clear by other
\* code or by a subscriber leaves the list as it is, the subscribers
\* invoked so far are a prefix of it, and a dispatch that ends without an
\* error has invoked exactly the list.
C22_DispatchUsesSnapshot ==
    [][/\ (nt.st = "none" /\ nt'.st # "none") =>
              nt'.subs = EffectiveSubscribers(nt'.inst)
       /\ (nt.st \in {"scheduled", "dispatching"}) =>
              /\ nt'.subs = nt.subs
              /\ nt'.inst = nt.inst
              /\ IsPrefix(nt'.calls, nt.subs)
              /\ (nt'.st = "returned") => nt'.calls = nt.subs]_vars

\* a scheduled dispatch of two subscribers has ended; while it ran, one of
\* them disconnected a handler of the list, so the live sets no longer
\* give the list
C22_Witness ==
    /\ nt.st = "returned"
    /\ nt.outer = "set"
    /\ Len(nt.calls) = 2
    /\ nt.during = "handler"
    /\ op.kind = "disconnect"
    /\ op.present
    /\ IsIn(op.cback, nt.subs)
    /\ EffectiveSubscribers(nt.inst) # nt.subs

\* C23: instance scoping is isolated.  A connect, disconnect or clear made
\* through an instance changes at most the set of that instance, and one
\* made on the Signal at most the class-level set, which clear leaves
\* empty; a notify invokes only handlers of the class-level set, of the
\* class body or of the set of the instance it goes through, so never a
\* handler connected only on another instance; and a notify through an
\* instance whose dispatch ends without an error has invoked every
\* class-level handler.
C23_InstanceScopesIsolated ==
    [][/\ (nt' = nt /\ op'.inst # NoInstance) =>
              /\ subscribers' = subscribers
              /\ \A j \in ProxyInstances \ {op'.inst} :
                    instance_subscribers'[j] = instance_subscribers[j]
              /\ (op'.kind = "clear") => instance_subscribers'[op'.inst] = <<>>
       /\ (nt' = nt /\ op'.inst = NoInstance) =>
              /\ instance_subscribers' = instance_subscribers
              /\ (op'.kind = "clear") => subscribers' = <<>>
       /\ (nt' # nt) =>
              /\ \A h \in Handlers :
                    IsIn(h, nt'.calls) =>
                        \/ IsIn(h, subscribers)
                        \/ /\ nt'.inst # NoInstance
                           /\ \/ IsIn(h, _get_class_handlers(nt'.inst))
                              \/ IsIn(h, instance_subscribers[nt'.inst])
              /\ (nt'.st = "returned" /\ nt'.inst # NoInstance) =>
                    \A h \in Handlers :
                        IsIn(h, subscribers) => IsIn(h, nt'.calls)]_vars

\* a notify through instance d has invoked the class-level handler and the
\* class-body handler and not the handler connected on instance c alone
C23_Witness ==
    /\ nt.st = "returned"
    /\ nt.inst = "d"
    /\ subscribers = <<1>>
    /\ instance_subscribers["c"] = <<3>>
    /\ instance_subscribers["d"] = <<>>
    /\ nt.calls = <<1, 2>>

====
